---- MODULE Spec2Model ----
(***************************************************************************)
(* A model of people_also_ask/google.py: the related-question traversal    *)
(* (generate_related_questions), the bounded collector                     *)
(* (get_related_questions), the answer assembler and answer traversal      *)
(* (get_answer, generate_answer) and the one-hop fallback                  *)
(* (get_simple_answer).                                                    *)
(*                                                                         *)
(* A question is a Python str, modelled as a sequence of one-character     *)
(* strings, so that set(text) (google.py:50, :116) is computed as Python   *)
(* computes it: the set of the one-character strings of text.              *)
(*                                                                         *)
(* The search backend (request.get + the parser module) is outside the     *)
(* source file.  Each search(q) draws a document from the set the backend  *)
(* can serve; a document already served for q is served again, so that    *)
(* the backend behaves as one related-question graph during a run.         *)
(***************************************************************************)
EXTENDS Integers, Sequences, FiniteSets

\* Longest related-question list a document carries.
MaxRelated == 2

\* Largest max_nb_questions tried.
MaxCount == 1

\* The questions the backend of the graph test double knows.
Questions == {<<"a">>, <<"b">>, <<"a", "b">>}

\* Duplicate-free lists over S with lo..hi entries.
ListsOver(S, lo, hi) ==
    UNION {{s \in [1..n -> S] : \A i, j \in 1..n : i # j => s[i] # s[j]} : n \in lo..hi}

Range(s) == {s[i] : i \in 1..Len(s)}

\* set(text) for a str: the set of its one-character strings.
CharSet(t) == {<<t[i]>> : i \in 1..Len(t)}

\* Optional[int]: None is the empty tuple, an int k the tuple <<k>>.
None == <<>>

Some(k) == <<k>>

NoError == [type |-> "none", arg |-> <<>>]

\* A str is a sequence of characters; the empty str is the empty sequence.
EmptyStr == <<>>

VARIABLES
    op,              \* the public function under call
    fetcher,         \* which test double stands for the backend
    seed,            \* the text argument of the call
    max_nb_questions,\* get_related_questions' bound, or None
    allow_fallback,  \* the depth argument the caller of get_simple_answer gave
    graph,           \* documents served so far: question -> document
    searches,        \* log of search(keyword) calls, in order
    gpc,             \* generator position (line of google.py it stands before)
    running,         \* TRUE while the generator body executes inside next()
    text,            \* generator local `text`
    questions,       \* generator local `questions` (the frontier)
    searched_text,   \* generator local `searched_text` (the visited set)
    emitted,         \* what the generator has yielded so far, in order
    cpc,             \* position of the calling function
    collected,       \* get_related_questions' local `questions`
    nb_question_regenerated,
    result,          \* the value the call returned
    answer,          \* generate_answer local `answer`
    question,        \* get_simple_answer parameter `question`
    depth,           \* get_simple_answer parameter `depth`
    err              \* the exception that left the call, if any

genv == <<gpc, running, text, questions, searched_text, emitted>>
callv == <<cpc, collected, nb_question_regenerated, result>>
argv == <<op, fetcher, seed, max_nb_questions, allow_fallback>>
ansv == <<answer, question, depth>>

vars == <<argv, graph, searches, genv, callv, ansv, err>>

\* No question is yielded more often than there are strings to yield; the guard
\* below only stops a run that would repeat itself for ever.
MaxEmitted == Cardinality(Questions) + 1

----------------------------------------------------------------------------
\* The backend.

Doc(parse, related, snippet) ==
    [parse |-> parse, related |-> related, snippet |-> snippet]

\* Documents of the graph test double: any related list, or a page whose
\* related-question block makes extract_related_questions raise.
GraphDocs ==
    {Doc("ok", r, "none") : r \in ListsOver(Questions, 0, MaxRelated)}
        \cup {Doc("fail", <<>>, "none"), Doc("empty", <<>>, "none")}

\* The fresh test double: every page lists max_count + 2 questions, none of
\* which the run has met before (as the seed, as a query or in a list).
FreshOrder ==
    << <<"a">>, <<"b">>, <<"c">>, <<"d">>, <<"e">>, <<"f">>,
       <<"g", "h">>, <<"h", "i">>, <<"i", "g">> >>

FreshQuestions == Range(FreshOrder)

FreshSeeds == {<<"a", "b", "c", "d", "e", "f">>, <<"s">>}

Seen ==
    {seed} \cup DOMAIN graph
        \cup UNION {Range(graph[x].related) : x \in DOMAIN graph}

FanOut == IF max_nb_questions = None THEN 2 ELSE max_nb_questions[1] + 2

FreshDocs ==
    {Doc("ok", SelectSeq(FreshOrder, LAMBDA x : x \in S), "none") :
        S \in {T \in SUBSET (FreshQuestions \ Seen) : Cardinality(T) = FanOut}}

\* Documents of the answer test double: a page as above, with no featured
\* snippet ("none"), with one ("ok"), or with one whose to_dict() raises ("bad").
AnswerDocs ==
    {Doc("ok", r, sn) : r \in ListsOver(Questions, 0, MaxRelated),
                        sn \in {"none", "ok", "bad"}}
        \cup {Doc("fail", <<>>, sn) : sn \in {"none", "ok"}}
        \cup {Doc("empty", <<>>, "none")}

Served(q) ==
    IF q \in DOMAIN graph THEN {graph[q]}
    ELSE IF fetcher = "fresh" THEN FreshDocs
    ELSE IF fetcher = "answers" THEN AnswerDocs
    ELSE GraphDocs

Remember(q, d) ==
    [x \in DOMAIN graph \cup {q} |-> IF x = q THEN d ELSE graph[x]]

\* search(keyword, location): one round trip.
search(q, d) ==
    /\ d \in Served(q)
    /\ graph' = Remember(q, d)
    /\ searches' = Append(searches, q)

RelatedQuestionParserError(q) == [type |-> "RelatedQuestionParserError", arg |-> q]

\* _get_related_questions without lines 34-35: the parser is handed the empty
\* document and raises on it.
Raises_OnEmpty(d) == d.parse \in {"fail", "empty"}

\* _get_related_questions on document d: extract_related_questions raises
\* (line 37, turned into RelatedQuestionParserError at line 39) ...
Raises(d) == d.parse = "fail"

\* ... or the call returns [] for an empty document (line 35) and the
\* extracted list otherwise (line 37).
RelatedOf(d) == IF d.parse = "empty" THEN <<>> ELSE d.related

\* featured_snippet.response: the text of the snippet of q's page.
Response(q) == <<"=">> \o q

\* get_answer on document d: what leaves the call as an exception.  Line 87
\* calls extract_related_questions outside any try, so its exception leaves
\* as it is; line 104 raises FeaturedSnippetParserError(question).
ParserException == [type |-> "Exception", arg |-> <<>>]

FeaturedSnippetParserError(q) == [type |-> "FeaturedSnippetParserError", arg |-> q]

AnswerError(q, d) ==
    IF d.parse = "fail" THEN ParserException
    ELSE IF d.snippet = "bad" THEN FeaturedSnippetParserError(q)
    ELSE NoError

\* get_answer on document d: the dictionary res (lines 89-102); the snippet
\* fields are in it once res.update(featured_snippet.to_dict()) has run.
AnswerOf(q, d) ==
    [has_answer |-> d.snippet # "none",
     question |-> q,
     related_questions |-> d.related,
     snippet |-> IF d.snippet = "ok" THEN <<Response(q)>> ELSE <<>>]

NoAnswer ==
    [has_answer |-> FALSE, question |-> <<>>, related_questions |-> <<>>,
     snippet |-> <<>>]

----------------------------------------------------------------------------
\* generate_related_questions, one action per statement.  The generator body
\* runs only inside a next() call of its consumer (running = TRUE).

\* The consumer of traverse_related_questions calls next().
Pull ==
    /\ op = "generate_related_questions"
    /\ ~running
    /\ gpc \in {"L49", "L54"}
    /\ running' = TRUE
    /\ UNCHANGED <<ansv, argv, graph, searches, gpc, text, questions, searched_text,
                   emitted, callv, err>>

\* Lines 49-50.
Grq_Init ==
    /\ running /\ gpc = "L49"
    /\ \E d \in Served(text) :
        /\ search(text, d)
        /\ IF Raises(d)
           THEN /\ gpc' = "error"
                /\ err' = RelatedQuestionParserError(text)
                /\ running' = FALSE
                /\ UNCHANGED <<questions, searched_text>>
           ELSE /\ questions' = Range(RelatedOf(d))
                /\ searched_text' = CharSet(text)
                /\ gpc' = "L51"
                /\ UNCHANGED <<err, running>>
    /\ UNCHANGED <<ansv, argv, text, emitted, callv>>

\* Line 51: the loop test; a false test ends the generator (StopIteration).
Grq_While ==
    /\ running /\ gpc = "L51"
    /\ IF questions # {}
       THEN gpc' = "L52" /\ running' = TRUE
       ELSE gpc' = "done" /\ running' = FALSE
    /\ UNCHANGED <<ansv, argv, graph, searches, text, questions, searched_text,
                   emitted, callv, err>>

\* Lines 52-53 with the popped question's page fetched ahead of the yield.
Grq_PopYield_Prefetch ==
    /\ running /\ gpc = "L52"
    /\ Len(emitted) < MaxEmitted
    /\ \E q \in questions :
        /\ text' = q
        /\ questions' = questions \ {q}
        /\ emitted' = Append(emitted, q)
        /\ \E d \in Served(q) : search(q, d)
    /\ gpc' = "L54"
    /\ running' = FALSE
    /\ UNCHANGED <<ansv, argv, searched_text, callv, err>>

\* Lines 52-53: set.pop() removes an arbitrary element, which is yielded.
Grq_PopYield ==
    /\ running /\ gpc = "L52"
    /\ Len(emitted) < MaxEmitted
    /\ \E q \in questions :
        /\ text' = q
        /\ questions' = questions \ {q}
        /\ emitted' = Append(emitted, q)
    /\ gpc' = "L54"
    /\ running' = FALSE
    /\ UNCHANGED <<ansv, argv, graph, searches, searched_text, callv, err>>

\* Line 54 left out: the popped question is not marked as searched.
Grq_AddSearched_Forgotten ==
    /\ running /\ gpc = "L54"
    /\ gpc' = "L55"
    /\ UNCHANGED <<ansv, argv, graph, searches, running, text, questions, searched_text,
                   emitted, callv, err>>

\* Line 54.
Grq_AddSearched ==
    /\ running /\ gpc = "L54"
    /\ searched_text' = searched_text \cup {text}
    /\ gpc' = "L55"
    /\ UNCHANGED <<ansv, argv, graph, searches, running, text, questions, emitted,
                   callv, err>>

\* Line 55 with the error carrying the seed instead of the text searched.
Grq_Merge_RaiseSeed ==
    /\ running /\ gpc = "L55"
    /\ \E d \in Served(text) :
        /\ search(text, d)
        /\ IF Raises(d)
           THEN /\ gpc' = "error"
                /\ err' = RelatedQuestionParserError(seed)
                /\ running' = FALSE
                /\ UNCHANGED questions
           ELSE /\ questions' = questions \cup Range(RelatedOf(d))
                /\ gpc' = "L56"
                /\ UNCHANGED <<err, running>>
    /\ UNCHANGED <<ansv, argv, text, searched_text, emitted, callv>>

\* Line 55.
Grq_Merge ==
    /\ running /\ gpc = "L55"
    /\ \E d \in Served(text) :
        /\ search(text, d)
        /\ IF Raises(d)
           THEN /\ gpc' = "error"
                /\ err' = RelatedQuestionParserError(text)
                /\ running' = FALSE
                /\ UNCHANGED questions
           ELSE /\ questions' = questions \cup Range(RelatedOf(d))
                /\ gpc' = "L56"
                /\ UNCHANGED <<err, running>>
    /\ UNCHANGED <<ansv, argv, text, searched_text, emitted, callv>>

\* Line 56 left out: the frontier keeps what was already searched.
Grq_Subtract_Skipped ==
    /\ running /\ gpc = "L56"
    /\ gpc' = "L51"
    /\ UNCHANGED <<ansv, argv, graph, searches, running, text, questions, searched_text,
                   emitted, callv, err>>

\* Line 56.
Grq_Subtract ==
    /\ running /\ gpc = "L56"
    /\ questions' = questions \ searched_text
    /\ gpc' = "L51"
    /\ UNCHANGED <<ansv, argv, graph, searches, running, text, searched_text,
                   emitted, callv, err>>

GenNext ==
    \/ Grq_Init
    \/ Grq_While
    \/ Grq_PopYield
    \/ Grq_AddSearched
    \/ Grq_Merge
    \/ Grq_Subtract

----------------------------------------------------------------------------
\* get_related_questions.

ListingsOf(S) == {s \in [1..Cardinality(S) -> S] : Range(s) = S}

\* Line 69 returning list(set(...)) of the related questions: any order.
Gq_Single_Unordered ==
    /\ op = "get_related_questions" /\ cpc = "L68"
    /\ max_nb_questions = None
    /\ \E d \in Served(seed) :
        /\ search(seed, d)
        /\ IF Raises(d)
           THEN /\ err' = RelatedQuestionParserError(seed)
                /\ cpc' = "raised"
                /\ UNCHANGED result
           ELSE /\ result' \in ListingsOf(Range(RelatedOf(d)))
                /\ cpc' = "returned"
                /\ UNCHANGED err
    /\ UNCHANGED <<ansv, argv, genv, collected, nb_question_regenerated>>

\* Lines 68-69: without a bound, one direct _get_related_questions call.
Gq_Single ==
    /\ op = "get_related_questions" /\ cpc = "L68"
    /\ max_nb_questions = None
    /\ \E d \in Served(seed) :
        /\ search(seed, d)
        /\ IF Raises(d)
           THEN /\ err' = RelatedQuestionParserError(seed)
                /\ cpc' = "raised"
                /\ UNCHANGED result
           ELSE /\ result' = RelatedOf(d)
                /\ cpc' = "returned"
                /\ UNCHANGED err
    /\ UNCHANGED <<ansv, argv, genv, collected, nb_question_regenerated>>

\* Lines 68, 70-72: with a bound, the counters and the generator object.
Gq_Begin ==
    /\ op = "get_related_questions" /\ cpc = "L68"
    /\ max_nb_questions # None
    /\ nb_question_regenerated' = 0
    /\ collected' = {}
    /\ cpc' = "L72"
    /\ UNCHANGED <<ansv, argv, graph, searches, genv, result, err>>

\* Line 72: the for statement asks the generator for its next item.
Gq_For ==
    /\ cpc = "L72" /\ ~running
    /\ running' = TRUE
    /\ cpc' = "L72.next"
    /\ UNCHANGED <<ansv, argv, graph, searches, gpc, text, questions, searched_text,
                   emitted, collected, nb_question_regenerated, result, err>>

\* Line 72 with the generator's error taken as the end of the iteration.
Gq_ForResult_Swallows ==
    /\ cpc = "L72.next" /\ ~running
    /\ cpc' = CASE gpc = "L54" -> "L73"
              [] gpc = "done" -> "L77"
              [] gpc = "error" -> "L77"
    /\ UNCHANGED <<ansv, argv, graph, searches, genv, collected,
                   nb_question_regenerated, result, err>>

\* Line 72, next() is back: an item, StopIteration, or the generator's error.
Gq_ForResult ==
    /\ cpc = "L72.next" /\ ~running
    /\ cpc' = CASE gpc = "L54" -> "L73"
              [] gpc = "done" -> "L77"
              [] gpc = "error" -> "raised"
    /\ UNCHANGED <<ansv, argv, graph, searches, genv, collected,
                   nb_question_regenerated, result, err>>

\* Lines 73-76 with the test of line 73 written >=.
Gq_Body_Exact ==
    /\ cpc = "L73"
    /\ IF nb_question_regenerated >= max_nb_questions[1]
       THEN /\ cpc' = "L77"
            /\ UNCHANGED <<collected, nb_question_regenerated>>
       ELSE /\ collected' = collected \cup {emitted[Len(emitted)]}
            /\ nb_question_regenerated' = nb_question_regenerated + 1
            /\ cpc' = "L72"
    /\ UNCHANGED <<ansv, argv, graph, searches, genv, result, err>>

\* Lines 73-76 with the bound tested after the item is kept, so that the
\* loop is left without another next().
Gq_Body_BreaksEarly ==
    /\ cpc = "L73"
    /\ collected' = collected \cup {emitted[Len(emitted)]}
    /\ nb_question_regenerated' = nb_question_regenerated + 1
    /\ cpc' = IF nb_question_regenerated + 1 > max_nb_questions[1]
              THEN "L77" ELSE "L72"
    /\ UNCHANGED <<ansv, argv, graph, searches, genv, result, err>>

\* Lines 73-76, for the item just yielded (the generator's `text`).
Gq_Body ==
    /\ cpc = "L73"
    /\ IF nb_question_regenerated > max_nb_questions[1]
       THEN /\ cpc' = "L77"
            /\ UNCHANGED <<collected, nb_question_regenerated>>
       ELSE /\ collected' = collected \cup {emitted[Len(emitted)]}
            /\ nb_question_regenerated' = nb_question_regenerated + 1
            /\ cpc' = "L72"
    /\ UNCHANGED <<ansv, argv, graph, searches, genv, result, err>>

\* Line 77: list(questions), in whatever order the set iterates.
Gq_Return ==
    /\ cpc = "L77"
    /\ result' \in ListingsOf(collected)
    /\ cpc' = "returned"
    /\ UNCHANGED <<ansv, argv, graph, searches, genv, collected,
                   nb_question_regenerated, err>>

CollectNext ==
    \/ Gq_Single
    \/ Gq_Begin
    \/ Gq_For
    \/ Gq_ForResult
    \/ Gq_Body
    \/ Gq_Return

----------------------------------------------------------------------------
\* get_answer, called on its own (answer_for).

\* Lines 101-104 with the exception swallowed: the record is returned as
\* built at lines 96-100.
Gan_Build_Swallows ==
    /\ op = "get_answer" /\ cpc = "L89"
    /\ result' = <<AnswerOf(seed, graph[seed])>>
    /\ cpc' = "returned"
    /\ UNCHANGED <<ansv, argv, graph, searches, genv, collected,
                   nb_question_regenerated, err>>

\* Lines 86-88: the search, the related questions, the snippet parser.
Gan_Fetch ==
    /\ op = "get_answer" /\ cpc = "L86"
    /\ \E d \in Served(seed) :
        /\ search(seed, d)
        /\ IF d.parse = "fail"
           THEN /\ err' = AnswerError(seed, d)
                /\ cpc' = "raised"
           ELSE /\ cpc' = "L89"
                /\ UNCHANGED err
    /\ UNCHANGED <<ansv, argv, genv, collected, nb_question_regenerated, result>>

\* Lines 89-105: the record, or FeaturedSnippetParserError from to_dict().
Gan_Build ==
    /\ op = "get_answer" /\ cpc = "L89"
    /\ IF AnswerError(seed, graph[seed]) # NoError
       THEN /\ err' = AnswerError(seed, graph[seed])
            /\ cpc' = "raised"
            /\ UNCHANGED result
       ELSE /\ result' = <<AnswerOf(seed, graph[seed])>>
            /\ cpc' = "returned"
            /\ UNCHANGED err
    /\ UNCHANGED <<ansv, argv, graph, searches, genv, collected,
                   nb_question_regenerated>>

GetAnswerNext ==
    \/ Gan_Fetch
    \/ Gan_Build

----------------------------------------------------------------------------
\* generate_answer, one action per statement.

\* The consumer of traverse_answers calls next().
PullAnswer ==
    /\ op = "generate_answer"
    /\ ~running
    /\ gpc \in {"L114", "L119", "L124"}
    /\ running' = TRUE
    /\ UNCHANGED <<ansv, argv, graph, searches, gpc, text, questions,
                   searched_text, emitted, callv, err>>

\* Lines 114-116.
Ga_Init ==
    /\ running /\ gpc = "L114"
    /\ \E d \in Served(text) :
        /\ search(text, d)
        /\ IF AnswerError(text, d) # NoError
           THEN /\ gpc' = "error"
                /\ err' = AnswerError(text, d)
                /\ running' = FALSE
                /\ UNCHANGED <<answer, questions, searched_text>>
           ELSE /\ answer' = AnswerOf(text, d)
                /\ questions' = Range(d.related)
                /\ searched_text' = CharSet(text)
                /\ gpc' = "L117"
                /\ UNCHANGED <<err, running>>
    /\ UNCHANGED <<argv, text, emitted, callv, question, depth>>

\* Lines 117-118: the seed's answer is yielded when it has one.
Ga_YieldSeed ==
    /\ running /\ gpc = "L117"
    /\ IF answer.has_answer
       THEN /\ emitted' = Append(emitted, answer)
            /\ running' = FALSE
       ELSE UNCHANGED <<emitted, running>>
    /\ gpc' = "L119"
    /\ UNCHANGED <<ansv, argv, graph, searches, text, questions, searched_text,
                   callv, err>>

\* Line 119.
Ga_While ==
    /\ running /\ gpc = "L119"
    /\ IF questions # {}
       THEN gpc' = "L120" /\ running' = TRUE
       ELSE gpc' = "done" /\ running' = FALSE
    /\ UNCHANGED <<ansv, argv, graph, searches, text, questions, searched_text,
                   emitted, callv, err>>

\* Lines 120-121: pop a question and get its answer.
Ga_PopAnswer ==
    /\ running /\ gpc = "L120"
    /\ Len(emitted) < MaxEmitted
    /\ \E q \in questions :
        /\ text' = q
        /\ questions' = questions \ {q}
        /\ \E d \in Served(q) :
            /\ search(q, d)
            /\ IF AnswerError(q, d) # NoError
               THEN /\ gpc' = "error"
                    /\ err' = AnswerError(q, d)
                    /\ running' = FALSE
                    /\ UNCHANGED answer
               ELSE /\ answer' = AnswerOf(q, d)
                    /\ gpc' = "L122"
                    /\ UNCHANGED <<err, running>>
    /\ UNCHANGED <<argv, searched_text, emitted, callv, question, depth>>

\* Lines 122-123 yielding whatever get_answer returned.
Ga_Yield_Unfiltered ==
    /\ running /\ gpc = "L122"
    /\ emitted' = Append(emitted, answer)
    /\ running' = FALSE
    /\ gpc' = "L124"
    /\ UNCHANGED <<ansv, argv, graph, searches, text, questions, searched_text,
                   callv, err>>

\* Lines 122-123.
Ga_Yield ==
    /\ running /\ gpc = "L122"
    /\ IF answer.has_answer
       THEN /\ emitted' = Append(emitted, answer)
            /\ running' = FALSE
       ELSE UNCHANGED <<emitted, running>>
    /\ gpc' = "L124"
    /\ UNCHANGED <<ansv, argv, graph, searches, text, questions, searched_text,
                   callv, err>>

\* Line 124.
Ga_AddSearched ==
    /\ running /\ gpc = "L124"
    /\ searched_text' = searched_text \cup {text}
    /\ gpc' = "L125"
    /\ UNCHANGED <<ansv, argv, graph, searches, running, text, questions,
                   emitted, callv, err>>

\* Lines 125-127: a second get_answer for the same text.
Ga_Merge ==
    /\ running /\ gpc = "L125"
    /\ \E d \in Served(text) :
        /\ search(text, d)
        /\ IF AnswerError(text, d) # NoError
           THEN /\ gpc' = "error"
                /\ err' = AnswerError(text, d)
                /\ running' = FALSE
                /\ UNCHANGED questions
           ELSE /\ questions' = questions \cup Range(AnswerOf(text, d).related_questions)
                /\ gpc' = "L128"
                /\ UNCHANGED <<err, running>>
    /\ UNCHANGED <<ansv, argv, text, searched_text, emitted, callv>>

\* Line 128.
Ga_Subtract ==
    /\ running /\ gpc = "L128"
    /\ questions' = questions \ searched_text
    /\ gpc' = "L119"
    /\ UNCHANGED <<ansv, argv, graph, searches, running, text, searched_text,
                   emitted, callv, err>>

AnswerNext ==
    \/ Ga_Init
    \/ Ga_YieldSeed
    \/ Ga_While
    \/ Ga_PopAnswer
    \/ Ga_Yield
    \/ Ga_AddSearched
    \/ Ga_Merge
    \/ Ga_Subtract

----------------------------------------------------------------------------
\* get_simple_answer.  The recursive call of line 147 is the last thing its
\* caller does and its value is returned as it is, so the callee's frame
\* takes the caller's place.

\* Lines 139-148 with the test of depth at line 143 left out.
Sa_Search_FallsBack ==
    /\ op = "get_simple_answer" /\ cpc = "L139"
    /\ \E d \in Served(question) :
        /\ search(question, d)
        /\ IF d.snippet # "none"
           THEN result' = Response(question) /\ cpc' = "returned"
           ELSE cpc' = "L144" /\ UNCHANGED result
    /\ UNCHANGED <<ansv, argv, genv, collected, nb_question_regenerated, err>>

\* Lines 139-143 and 148.
Sa_Search ==
    /\ op = "get_simple_answer" /\ cpc = "L139"
    /\ \E d \in Served(question) :
        /\ search(question, d)
        /\ IF d.snippet # "none"
           THEN result' = Response(question) /\ cpc' = "returned"
           ELSE IF depth
                THEN cpc' = "L144" /\ UNCHANGED result
                ELSE result' = EmptyStr /\ cpc' = "returned"
    /\ UNCHANGED <<ansv, argv, genv, collected, nb_question_regenerated, err>>

\* Lines 144-147 with the recursive call passing depth on.
Sa_Fallback_Cascades ==
    /\ op = "get_simple_answer" /\ cpc = "L144"
    /\ \E d \in Served(question) :
        /\ search(question, d)
        /\ IF Raises(d)
           THEN /\ err' = RelatedQuestionParserError(question)
                /\ cpc' = "raised"
                /\ UNCHANGED <<result, question>>
           ELSE IF RelatedOf(d) = <<>>
                THEN /\ result' = EmptyStr
                     /\ cpc' = "returned"
                     /\ UNCHANGED <<err, question>>
                ELSE /\ question' = RelatedOf(d)[1]
                     /\ cpc' = "L139"
                     /\ UNCHANGED <<err, result>>
    /\ UNCHANGED <<argv, genv, collected, nb_question_regenerated, answer, depth>>

\* Lines 144-147: get_related_questions without a bound (lines 68-69), then
\* the recursive call on the first related question, depth left at its default.
Sa_Fallback ==
    /\ op = "get_simple_answer" /\ cpc = "L144"
    /\ \E d \in Served(question) :
        /\ search(question, d)
        /\ IF Raises(d)
           THEN /\ err' = RelatedQuestionParserError(question)
                /\ cpc' = "raised"
                /\ UNCHANGED <<result, question, depth>>
           ELSE IF RelatedOf(d) = <<>>
                THEN /\ result' = EmptyStr
                     /\ cpc' = "returned"
                     /\ UNCHANGED <<err, question, depth>>
                ELSE /\ question' = RelatedOf(d)[1]
                     /\ depth' = FALSE
                     /\ cpc' = "L139"
                     /\ UNCHANGED <<err, result>>
    /\ UNCHANGED <<argv, genv, collected, nb_question_regenerated, answer>>

SimpleNext ==
    \/ Sa_Search
    \/ Sa_Fallback

----------------------------------------------------------------------------
EmptyGraph == [x \in {} |-> Doc("ok", <<>>, "none")]

InitCommon ==
    /\ graph = EmptyGraph
    /\ searches = <<>>
    /\ running = FALSE
    /\ text = seed
    /\ questions = {}
    /\ searched_text = {}
    /\ emitted = <<>>
    /\ collected = {}
    /\ nb_question_regenerated = 0
    /\ result = <<>>
    /\ answer = NoAnswer
    /\ question = seed
    /\ err = NoError

\* traverse_related_questions(seed, locale) against the graph test double.
Init ==
    /\ op = "generate_related_questions"
    /\ fetcher = "graph"
    /\ seed \in Questions
    /\ max_nb_questions = None
    /\ cpc = "consumer"
    /\ allow_fallback = FALSE
    /\ depth = FALSE
    /\ InitCommon
    /\ gpc = "L49"

Next ==
    \/ Pull
    \/ GenNext

Spec == Init /\ [][Next]_vars

\* The consumer keeps pulling and every started step completes.
FairSpec == Spec /\ WF_vars(Next)

\* collect_related_questions(seed, locale, max_count?) against the graph double.
InitCollect ==
    /\ op = "get_related_questions"
    /\ fetcher = "graph"
    /\ seed \in Questions
    /\ max_nb_questions \in {None} \cup {Some(k) : k \in 0..MaxCount}
    /\ cpc = "L68"
    /\ allow_fallback = FALSE
    /\ depth = FALSE
    /\ InitCommon
    /\ gpc = "L49"

NextCollect ==
    \/ CollectNext
    \/ GenNext

SpecCollect == InitCollect /\ [][NextCollect]_vars

\* traverse_answers(seed, locale) against the answer test double.
InitAnswers ==
    /\ op = "generate_answer"
    /\ fetcher = "answers"
    /\ seed \in Questions
    /\ max_nb_questions = None
    /\ cpc = "consumer"
    /\ allow_fallback = FALSE
    /\ depth = FALSE
    /\ InitCommon
    /\ gpc = "L114"

NextAnswers ==
    \/ PullAnswer
    \/ AnswerNext

SpecAnswers == InitAnswers /\ [][NextAnswers]_vars

\* simple_answer(seed, locale, allow_fallback) against the answer test double.
InitSimple ==
    /\ op = "get_simple_answer"
    /\ fetcher = "answers"
    /\ seed \in Questions
    /\ max_nb_questions = None
    /\ cpc = "L139"
    /\ allow_fallback \in BOOLEAN
    /\ depth = allow_fallback
    /\ gpc = "L49"
    /\ graph = EmptyGraph
    /\ searches = <<>>
    /\ running = FALSE
    /\ text = seed
    /\ questions = {}
    /\ searched_text = {}
    /\ emitted = <<>>
    /\ collected = {}
    /\ nb_question_regenerated = 0
    /\ result = <<>>
    /\ answer = NoAnswer
    /\ question = seed
    /\ err = NoError

SpecSimple == InitSimple /\ [][SimpleNext]_vars

\* answer(seed, locale) against the answer test double.
InitGetAnswer ==
    /\ op = "get_answer"
    /\ fetcher = "answers"
    /\ seed \in Questions
    /\ max_nb_questions = None
    /\ cpc = "L86"
    /\ allow_fallback = FALSE
    /\ depth = FALSE
    /\ InitCommon
    /\ gpc = "L114"

SpecGetAnswer == InitGetAnswer /\ [][GetAnswerNext]_vars

\* collect_related_questions against the fresh test double.
InitFresh ==
    /\ op = "get_related_questions"
    /\ fetcher = "fresh"
    /\ seed \in FreshSeeds
    /\ max_nb_questions \in {None} \cup {Some(k) : k \in 0..MaxCount}
    /\ cpc = "L68"
    /\ allow_fallback = FALSE
    /\ depth = FALSE
    /\ InitCommon
    /\ gpc = "L49"

SpecFresh == InitFresh /\ [][NextCollect]_vars

----------------------------------------------------------------------------
\* Properties of generate_related_questions (Spec, FairSpec).

Last(s) == s[Len(s)]

\* The related list the backend served for a question it was asked about.
Listed(q) == IF q \in DOMAIN graph THEN Range(RelatedOf(graph[q])) ELSE {}

\* C1: the sequence yielded by one run of generate_related_questions never
\* holds the same question twice, whatever element set.pop() removes.
C1_NoDuplicates ==
    \A i, j \in 1..Len(emitted) : i # j => emitted[i] # emitted[j]

\* A finished run in which an earlier yielded question was listed again by a
\* question yielded later.
C1_Witness ==
    /\ gpc = "done"
    /\ \E i, j \in 1..Len(emitted) : i < j /\ emitted[i] \in Listed(emitted[j])

\* C2: no yielded question equals the seed, because the visited set holds the
\* seed; stated for the questions yielded after the first frontier update,
\* the ones line 56 has filtered against the visited set.
C2_SeedNotRediscovered ==
    \A i \in 2..Len(emitted) : emitted[i] # seed

\* C3 as stated: right after initialization (line 51 reached from line 50), at
\* each emission point (line 53) and after each frontier update (line 51
\* reached from line 56) the frontier and the visited set are disjoint.
C3_DisjointEverywhere ==
    gpc \in {"L51", "L54"} => questions \cap searched_text = {}

\* C3 as amended: after each frontier update (line 56) and at every emission
\* point after the first one, the frontier and the visited set are disjoint.
C3_DisjointAfterUpdate ==
    (\/ gpc = "L51" /\ emitted # <<>>
     \/ gpc = "L54" /\ Len(emitted) >= 2)
        => questions \cap searched_text = {}

\* After an update whose hop listed an already searched question, with
\* questions still left in the frontier.
C3_Witness ==
    /\ gpc = "L51" /\ emitted # <<>>
    /\ questions # {}
    /\ Listed(text) \cap searched_text # {}

\* C4: when the consumer keeps pulling, the run ends: the frontier is found
\* empty at line 51 (or the run is aborted by a parse failure).
C4_Terminates ==
    <>(\/ gpc = "done" /\ questions = {}
       \/ gpc = "error")

\* A run that ended on an empty frontier although two yielded questions list
\* each other, one lists itself and one lists the seed.
C4_Witness ==
    /\ gpc = "done" /\ questions = {}
    /\ \E i, j \in 1..Len(emitted) :
        /\ i # j
        /\ emitted[i] \in Listed(emitted[j])
        /\ emitted[j] \in Listed(emitted[i])
    /\ \E i \in 1..Len(emitted) : emitted[i] \in Listed(emitted[i])
    /\ \E i \in 1..Len(emitted) : seed \in Listed(emitted[i])

\* C9: when extraction fails for the text just searched, the error is
\* RelatedQuestionParserError carrying that text, the generator is over, and
\* nothing is yielded afterwards.
C9_ParseFailure ==
    [][/\ (gpc # "error" /\ gpc' = "error") =>
            /\ graph'[Last(searches')].parse = "fail"
            /\ err' = RelatedQuestionParserError(Last(searches'))
            /\ ~running'
       /\ gpc = "error" => (gpc' = "error" /\ emitted' = emitted /\ err' = err)
       /\ (gpc' # "error" /\ Len(searches') > Len(searches)) =>
            graph'[Last(searches')].parse # "fail"]_vars

\* The run failed on a question other than the seed, after yielding it.
C9_Witness ==
    /\ gpc = "error"
    /\ err.arg # seed
    /\ emitted # <<>> /\ err.arg = Last(emitted)

----------------------------------------------------------------------------
\* Properties of get_related_questions (SpecCollect, SpecFresh).

\* C5: with max_nb_questions = k and a backend whose every page lists at least
\* k + 2 fresh questions, the call returns exactly k + 1 distinct questions.
C5_ExactlyKPlusOne ==
    (fetcher = "fresh" /\ max_nb_questions # None /\ cpc = "returned") =>
        /\ Len(result) = max_nb_questions[1] + 1
        /\ Cardinality(Range(result)) = max_nb_questions[1] + 1

\* C6: without max_nb_questions the call makes one round trip, for the seed,
\* and returns the list that page carries (none for an empty page); no
\* related question is searched.
C6_SingleHop ==
    (op = "get_related_questions" /\ max_nb_questions = None) =>
        /\ Len(searches) <= 1
        /\ \A i \in 1..Len(searches) : searches[i] = seed
        /\ cpc = "returned" =>
            /\ searches = <<seed>>
            /\ result = RelatedOf(graph[seed])
        /\ cpc = "raised" =>
            /\ searches = <<seed>>
            /\ Raises(graph[seed])
            /\ err = RelatedQuestionParserError(seed)

\* An unbounded call returned a list of two related questions.
C6_Witness ==
    /\ op = "get_related_questions" /\ max_nb_questions = None
    /\ cpc = "returned"
    /\ Len(result) = 2

----------------------------------------------------------------------------
\* Properties of get_simple_answer (SpecSimple).

HasSnippet(q) == graph[q].snippet # "none"

\* C7: with allow_fallback the call follows at most one fallback hop.  The
\* seed Q is searched at most twice (lines 139, 144), then only its first
\* related question R, once and with depth = False; when Q has no snippet
\* the call returns R's snippet response if R has one and "" if not, without
\* any search for a related question of R.
C7_OneHop ==
    (op = "get_simple_answer" /\ allow_fallback) =>
        /\ Len(searches) <= 3
        /\ Len(searches) >= 1 => searches[1] = seed
        /\ Len(searches) >= 2 => searches[2] = seed /\ ~HasSnippet(seed)
        /\ Len(searches) = 3 =>
            /\ graph[seed].related # <<>>
            /\ searches[3] = graph[seed].related[1]
            /\ ~depth
            /\ cpc = "returned"
            /\ result = IF HasSnippet(searches[3])
                        THEN Response(searches[3]) ELSE EmptyStr

\* The call returned "" after Q, Q, R were searched: R has no snippet and its
\* page lists a further question S first, which was not searched.
C7_Witness ==
    /\ op = "get_simple_answer" /\ allow_fallback
    /\ cpc = "returned" /\ result = EmptyStr
    /\ Len(searches) = 3
    /\ graph[searches[3]].related # <<>>
    /\ graph[searches[3]].related[1] \notin {seed, searches[3]}
    /\ graph[searches[3]].related[1] \notin DOMAIN graph

----------------------------------------------------------------------------
\* Properties of generate_answer (SpecAnswers).

\* The questions popped at line 120, in order: each is searched at line 121
\* and again at line 125, after the seed's search at line 114.
Expanded == [k \in 1..(Len(searches) \div 2) |-> searches[2 * k]]

\* C8: every record generate_answer yields has has_answer = True and comes
\* from a page with a featured snippet; a question without one is expanded
\* but not yielded.
C8_OnlyAnswers ==
    op = "generate_answer" =>
        \A i \in 1..Len(emitted) :
            /\ emitted[i].has_answer
            /\ HasSnippet(emitted[i].question)
            /\ emitted[i].snippet # <<>>

\* A finished run that expanded a question without snippet and yielded the
\* answer of a question found on that question's page.
C8_Witness ==
    /\ op = "generate_answer" /\ gpc = "done"
    /\ \E k \in 1..Len(Expanded) :
        /\ ~HasSnippet(Expanded[k])
        /\ \A i \in 1..Len(emitted) : emitted[i].question # Expanded[k]
        /\ \E i \in 1..Len(emitted) :
            /\ emitted[i].question \in Listed(Expanded[k])
            /\ emitted[i].question \notin Listed(seed) \cup {seed}

\* C10: no question is popped and handed to get_answer in more than one loop
\* iteration, and no two yielded records have the same question; the latter
\* is stated for seeds whose own page does not list them, where only the
\* visited set keeps the seed out of the frontier.
C10_NoRepeat ==
    op = "generate_answer" =>
        /\ \A i, j \in 1..Len(Expanded) : i # j => Expanded[i] # Expanded[j]
        /\ seed \notin Listed(seed) =>
            \A i, j \in 1..Len(emitted) :
                i # j => emitted[i].question # emitted[j].question

----------------------------------------------------------------------------
\* Properties of get_answer (SpecGetAnswer).

\* C11: when the page has a featured snippet whose to_dict() raises, the call
\* ends with FeaturedSnippetParserError carrying the question and returns
\* nothing; every record returned with has_answer = True has the snippet
\* fields.
C11_SnippetFailure ==
    op = "get_answer" =>
        /\ (cpc \in {"returned", "raised"} /\ graph[seed].parse # "fail"
                /\ graph[seed].snippet = "bad") =>
            /\ cpc = "raised"
            /\ err = FeaturedSnippetParserError(seed)
            /\ result = <<>>
        /\ cpc = "returned" =>
            /\ Len(result) = 1
            /\ result[1].has_answer = (graph[seed].snippet = "ok")
            /\ result[1].has_answer = (result[1].snippet # <<>>)

\* The call ended on a page that lists related questions and has a snippet
\* whose normalization fails.
C11_Witness ==
    /\ op = "get_answer" /\ cpc = "raised"
    /\ graph[seed].snippet = "bad"
    /\ graph[seed].related # <<>>
    /\ err.type = "FeaturedSnippetParserError"

----------------------------------------------------------------------------
\* Round trips of generate_related_questions (Spec).

\* C12: the generator searches only while the consumer waits in next();
\* nothing has been searched before the first next(), and when the consumer
\* holds n yielded questions the searches made are the seed and the first
\* n-1 yielded questions, in that order: n round trips, the related
\* questions of the last yielded question not fetched yet.
C12_PullDriven ==
    [][/\ (~running /\ gpc = "L49") => searches = <<>>
       /\ searches' # searches => (running /\ Len(searches') = Len(searches) + 1)
       /\ (~running' /\ gpc' = "L54") =>
            /\ Len(emitted') >= 1
            /\ searches' = <<seed>> \o SubSeq(emitted', 1, Len(emitted') - 1)]_vars

\* The consumer holds two yielded questions after exactly two round trips,
\* and the page of the second one lists questions nobody has fetched.
C12_Witness ==
    /\ op = "generate_related_questions"
    /\ ~running /\ gpc = "L54"
    /\ Len(emitted) = 2 /\ Len(searches) = 2
    /\ emitted[2] \notin DOMAIN graph

\* C13: when extract_related_questions fails inside get_answer, the call is
\* aborted and the error the caller receives is RelatedQuestionParserError
\* carrying the question.
C13_ExtractionFailure ==
    (op = "get_answer" /\ cpc \in {"returned", "raised"}
            /\ graph[seed].parse = "fail") =>
        /\ cpc = "raised"
        /\ result = <<>>
        /\ err = RelatedQuestionParserError(seed)

\* The questions popped from the frontier (line 52) and since added to
\* searched_text (line 54).
Inserted ==
    IF gpc = "L54"
    THEN Range(SubSeq(emitted, 1, Len(emitted) - 1))
    ELSE Range(emitted)

\* C14: searched_text only grows, and a question that was popped and added
\* to searched_text is not in the frontier after any later frontier update
\* (lines 55-56 taken together), whichever pages list it again.
C14_VisitedMonotone ==
    [][/\ searched_text \subseteq searched_text'
       /\ gpc' # "L56" => Inserted' \cap questions' = {}]_vars

\* Three questions were yielded, and the pages of the second and of the
\* third both list the first again.
C14_Witness ==
    /\ op = "generate_related_questions"
    /\ gpc = "L51" /\ Len(emitted) = 3
    /\ emitted[1] \in Listed(emitted[2]) \cap Listed(emitted[3])
    /\ emitted[1] \notin questions

\* C15: once the question's page has been searched, a featured snippet on it
\* makes get_simple_answer return that snippet's response after this one
\* search, whatever depth is; with depth = False and no snippet it returns ""
\* after this one search, the related questions not being fetched.
C15_OwnSnippetFirst ==
    (op = "get_simple_answer" /\ Len(searches) >= 1) =>
        /\ HasSnippet(seed) =>
            /\ cpc = "returned"
            /\ result = Response(seed)
            /\ searches = <<seed>>
        /\ (~allow_fallback /\ ~HasSnippet(seed)) =>
            /\ cpc = "returned"
            /\ result = EmptyStr
            /\ searches = <<seed>>
            /\ err = NoError

\* Without fallback the call returned "" although the page lists related
\* questions; none of them was searched.
C15_Witness ==
    /\ op = "get_simple_answer" /\ ~allow_fallback
    /\ cpc = "returned" /\ result = EmptyStr
    /\ ~HasSnippet(seed)
    /\ graph[seed].related # <<>>
    /\ DOMAIN graph = {seed}

----------------------------------------------------------------------------
\* Empty documents (SpecCollect).

\* C16: when search returns an empty document, _get_related_questions
\* returns [] and raises nothing (line 35, before the parser is reached): so
\* get_related_questions without a bound returns [], a generator whose seed
\* page is empty yields nothing and ends, and an empty page for a yielded
\* question leaves the frontier as it was.
C16_EmptyDocument ==
    [][/\ (max_nb_questions' = None /\ cpc' \in {"returned", "raised"}
                /\ graph'[seed'].parse = "empty") =>
            /\ cpc' = "returned"
            /\ result' = <<>>
            /\ err' = NoError
       /\ (gpc' # "L49" /\ graph'[seed'].parse = "empty") =>
            /\ gpc' \in {"L51", "done"}
            /\ questions' = {}
            /\ emitted' = <<>>
            /\ err' = NoError
       /\ (gpc = "L55" /\ gpc' # "L55" /\ graph'[text].parse = "empty") =>
            /\ gpc' = "L56"
            /\ questions' = questions
            /\ err' = NoError]_vars

\* The page of a yielded question came back empty while other questions are
\* waiting in the frontier.
C16_Witness ==
    /\ op = "get_related_questions"
    /\ gpc = "L56" /\ Len(emitted) >= 1
    /\ graph[text].parse = "empty"
    /\ text # seed
    /\ questions # {}

----------------------------------------------------------------------------
\* get_related_questions with a bound (SpecCollect).

\* C17: with max_nb_questions given, a failure of any search/parse step made
\* during the collection ends the call with that error: the call does not
\* return, and the questions gathered so far are not handed out.
C17_NoPartialResult ==
    (op = "get_related_questions" /\ max_nb_questions # None) =>
        /\ gpc = "error" =>
            /\ cpc \in {"L72.next", "raised"}
            /\ result = <<>>
        /\ cpc = "raised" =>
            /\ gpc = "error"
            /\ result = <<>>
            /\ err = RelatedQuestionParserError(Last(searches))
        /\ cpc = "returned" =>
            /\ err = NoError
            /\ \A q \in DOMAIN graph : graph[q].parse # "fail"

\* The call ended with the error after questions had been gathered.
C17_Witness ==
    /\ op = "get_related_questions" /\ max_nb_questions # None
    /\ cpc = "raised"
    /\ collected # {}
    /\ result = <<>>

----------------------------------------------------------------------------
\* Coverage of the graph (Spec).

\* The questions listed on the pages of the questions in S.
ListedBy(S) == UNION {Listed(q) : q \in S}

RECURSIVE Closure(_)
\* The least set holding S and closed under "is listed on the page of".
Closure(S) == IF ListedBy(S) \subseteq S THEN S ELSE Closure(S \cup ListedBy(S))

\* The questions reachable from the seed by one or more hops.
Reachable == Closure(Listed(seed))

\* C18: a run pulled to exhaustion has yielded exactly the questions
\* reachable from the seed by one or more hops, the seed left out (here for
\* a seed whose own page does not list it).
C18_ExactlyReachable ==
    (op = "generate_related_questions" /\ gpc = "done"
            /\ seed \notin Listed(seed)) =>
        Range(emitted) = Reachable \ {seed}

----------------------------------------------------------------------------
\* The bound of get_related_questions (SpecCollect).

\* The number of questions a bounded call keeps out of n yielded ones.
Kept(n) == IF n < max_nb_questions[1] + 1 THEN n ELSE max_nb_questions[1] + 1

\* C19: a call with max_nb_questions = k returns the first min(k+1, N)
\* questions the generator yields, N being all it can yield: the generator
\* was exhausted with N <= k+1 questions, or it was left at its (k+2)-th
\* yield; the list returned holds the first min(k+1, N) of them, each once.
C19_FirstKPlusOne ==
    (op = "get_related_questions" /\ max_nb_questions # None
            /\ cpc = "returned") =>
        /\ \/ gpc = "done" /\ Len(emitted) <= max_nb_questions[1] + 1
           \/ gpc = "L54" /\ Len(emitted) = max_nb_questions[1] + 2
        /\ Len(result) = Kept(Len(emitted))
        /\ Range(result) = Range(SubSeq(emitted, 1, Kept(Len(emitted))))
        /\ Len(result) <= max_nb_questions[1] + 1

\* With k = 1 the generator yielded three questions and the call returned
\* the first two.
C19_Witness ==
    /\ op = "get_related_questions" /\ max_nb_questions = Some(1)
    /\ cpc = "returned"
    /\ Len(emitted) = 3 /\ Len(result) = 2
    /\ emitted[3] \notin Range(result)

\* C20: a call with max_nb_questions = k leaves the loop only when the
\* generator is exhausted or has yielded its (k+2)-th question; in the
\* second case exactly k+2 searches were made and the (k+2)-th question is
\* not in the list returned; and when the search made to expand the
\* (k+1)-th yielded question fails, the call ends with that error and
\* returns nothing.
C20_OnePullMore ==
    (op = "get_related_questions" /\ max_nb_questions # None) =>
        /\ cpc \in {"L77", "returned"} =>
            \/ gpc = "done"
            \/ Len(emitted) = max_nb_questions[1] + 2
        /\ (cpc = "returned" /\ Len(emitted) = max_nb_questions[1] + 2) =>
            /\ Len(searches) = max_nb_questions[1] + 2
            /\ emitted[max_nb_questions[1] + 2] \notin Range(result)
            /\ Len(result) = max_nb_questions[1] + 1
        /\ (gpc = "error" /\ Len(emitted) = max_nb_questions[1] + 1) =>
            /\ cpc \in {"L72.next", "raised"}
            /\ result = <<>>
            /\ err = RelatedQuestionParserError(emitted[max_nb_questions[1] + 1])

\* With k = 1 two questions had been kept when the page of the second one
\* failed to parse: the call ended with the error.
C20_Witness ==
    /\ op = "get_related_questions" /\ max_nb_questions = Some(1)
    /\ cpc = "raised"
    /\ Len(emitted) = 2 /\ Cardinality(collected) = 2
    /\ err = RelatedQuestionParserError(emitted[2])

====
